---- MODULE Spec2Model ----
(***************************************************************************)
(* A model of arduino-genmakefile.py: the configuration composer           *)
(* (Config), the safe-overwrite gate (Path.safely_remove_or_exit) and the  *)
(* generation pipeline of main() (Makefile.generate, Qmake.generate).      *)
(*                                                                         *)
(* Text is modelled as sequences of chunks: a line is a sequence of        *)
(* strings whose last chunk is "\n" when the line is terminated, a file    *)
(* is a sequence of lines.  str.startswith is the prefix relation on       *)
(* chunk sequences.                                                        *)
(***************************************************************************)
EXTENDS Naturals, Sequences, FiniteSets, TLC

VARIABLES
    files,               \* configuration documents on disk: name -> [kind, configs, keys]
    extra_config_stack,  \* Config.extra_config_stack (class attribute, one per process)
    parsed,              \* per Config() call: how often each document was opened and parsed
    config,              \* outcome of the last Config(): error or the merged fields
    args,                \* command line: [config, makefile, qmake]
    fs,                  \* output locations on disk: location -> [kind, lines, mode]
    fs0,                 \* the output locations as the process found them
    oplog,               \* removals and writes of output locations, in order
    pc,                  \* position in main() / in the harness
    err,                 \* the error that ended the run, "none" otherwise
    scan,                \* what the scans of Qmake.generate returned
    build,               \* outcome of the make invocations of Qmake.get_defines
    defines,             \* what Qmake.get_defines returned
    run,                 \* which run of the program this is: the first or a repeat
    env                  \* what a repeated run finds as the run before found it:
                         \* the sketch, the templates, the directories, the build

vars == <<files, extra_config_stack, parsed, config, args, fs, fs0, oplog,
          pc, err, scan, build, defines, run, env>>

-----------------------------------------------------------------------------
(* Bounds *)

\* longest "configs" list of a configuration document
MaxIncl == 2
\* most configuration paths handed to one Config() call
MaxMain == 2
\* most lines of a pre-existing file handed to safely_remove_or_exit
MaxLines == 4

-----------------------------------------------------------------------------
(* Sequences *)

SeqsUpTo(S, n) == UNION {[1..k -> S] : k \in 0..n}

InSeq(x, s) == \E i \in 1..Len(s) : s[i] = x

Front(s) == SubSeq(s, 1, Len(s) - 1)

\* str.startswith
StartsWith(s, prefix) ==
    /\ Len(prefix) <= Len(s)
    /\ SubSeq(s, 1, Len(prefix)) = prefix

-----------------------------------------------------------------------------
(* Constants of the program *)

\* Constants.generated_by_us_string(): the marker line, newline included
generated_by_us_string == <<"# Generated by arduino-genmakefile", "\n">>

\* header_strings with the marker line left out
header_strings_unmarked ==
    << <<"#", "\n">>,
       <<"# Command line:", "\n">>,
       <<"# ", "argv", "\n">>,
       <<"\n">> >>

\* Constants.header_strings()
header_strings ==
    << generated_by_us_string,
       <<"#", "\n">>,
       <<"# Command line:", "\n">>,
       <<"# ", "argv", "\n">>,
       <<"\n">> >>

default_debug_command == "cat $$SERIALPORT"

default_baudrate == "115200"

-----------------------------------------------------------------------------
(* Configuration documents *)

\* The documents: A and B always exist, X is a leaf that may be missing.
ConfigNames == {"A", "B", "X"}

HandledKeys == {"fqbn", "cflags", "debug_command", "baudrate", "libs",
                "qmake_dirs", "qmake_exclude_dirs"}

AllKeys == HandledKeys \cup {"unhandled"}

\* The key sets a document A or B may carry ("configs" is held apart).
KeyChoices == { {}, AllKeys, {"cflags", "baudrate", "libs"} }

\* The keys of X when it exists.
KeysOfX == {"debug_command", "qmake_exclude_dirs", "libs"}

\* The values each document gives to its keys.
FqbnOf == [f \in ConfigNames |-> <<"fqbn", f>>]
DebugCommandOf == [f \in ConfigNames |-> <<"debug_command", f>>]
BaudrateOf == [f \in ConfigNames |-> <<"baudrate", f>>]
CflagsOf == [f \in ConfigNames |->
                IF f = "A" THEN << <<"-D", "A1">>, <<"-D", "A2">> >>
                ELSE << <<"-D", f>> >>]
\* A Path: its type (Path.Type) and its location, as chunks of text.
PathOf(type, path) == [type |-> type, path |-> path]

LibsOf == [f \in ConfigNames |->
              IF f = "A" THEN << PathOf("Relative", <<"libA">>) >>
              ELSE IF f = "B" THEN << PathOf("Absolute", <<"/libB">>) >>
              ELSE << PathOf("User", <<"libX">>) >>]
QmakeDirsOf == [f \in ConfigNames |-> << PathOf("Relative", <<"qdir">>) >>]
QmakeExcludeDirsOf == [f \in ConfigNames |-> << PathOf("Relative", <<"xdir">>) >>]

Document(kind, configs, keys) == [kind |-> kind, configs |-> configs, keys |-> keys]

\* Every set of documents within the bounds.
FileSets ==
    { [f \in ConfigNames |->
          IF f = "A" THEN Document("file", ia, ka)
          ELSE IF f = "B" THEN Document("file", ib, kb)
          ELSE Document(xk, <<>>, KeysOfX)] :
      ia \in SeqsUpTo(ConfigNames, MaxIncl), ib \in SeqsUpTo(ConfigNames, MaxIncl),
      ka \in KeyChoices, kb \in KeyChoices, xk \in {"file", "absent"} }

MainChoices == SeqsUpTo(ConfigNames, MaxMain) \ {<<>>}

-----------------------------------------------------------------------------
(* Config.get_extra_configs and Config.__init__ *)

NoCounts == [f \in ConfigNames |-> 0]

\* The state a traversal threads through its calls; ret is the value returned.
Traversal(stack, counts, e, ret) ==
    [stack |-> stack, parsed |-> counts, err |-> e, ret |-> ret]

RECURSIVE get_extra_configs(_, _, _), get_extra_configs_loop(_, _, _, _, _)

\* get_extra_configs with the document opened and parsed before the stack is looked at
get_extra_configs_parse_first(path, st, fls) ==
    IF fls[path].kind # "file"
    THEN Traversal(Append(st.stack, path), st.parsed, "ConfigIOError", <<>>)
    ELSE LET counts == [st.parsed EXCEPT ![path] = @ + 1] IN
         IF InSeq(path, st.stack)
         THEN Traversal(st.stack, counts, "CircularInclusion", <<>>)
         ELSE LET r == get_extra_configs_loop(fls[path].configs, 1,
                           Traversal(Append(st.stack, path), counts, "none", <<>>),
                           fls, <<>>)
              IN  IF r.err # "none" THEN r
                  ELSE Traversal(Front(r.stack), r.parsed, "none", r.ret)

\* Config.get_extra_configs(path), started with the stack and counters of st.
\* An exception leaves the stack as it is at the raise.
get_extra_configs(path, st, fls) ==
    IF InSeq(path, st.stack)
    THEN Traversal(st.stack, st.parsed, "CircularInclusion", <<>>)
    ELSE LET pushed == Append(st.stack, path) IN
         IF fls[path].kind # "file"
         THEN Traversal(pushed, st.parsed, "ConfigIOError", <<>>)
         ELSE LET counts == [st.parsed EXCEPT ![path] = @ + 1]
                  r == get_extra_configs_loop(fls[path].configs, 1,
                           Traversal(pushed, counts, "none", <<>>), fls, <<>>)
              IN  IF r.err # "none" THEN r
                  ELSE Traversal(Front(r.stack), r.parsed, "none", r.ret)

\* for config in data.get("configs", []): ret.append(..); ret += get_extra_configs(..)
get_extra_configs_loop(configs, i, st, fls, ret) ==
    IF i > Len(configs)
    THEN Traversal(st.stack, st.parsed, "none", ret)
    ELSE LET r == get_extra_configs(configs[i], st, fls) IN
         IF r.err # "none" THEN r
         ELSE get_extra_configs_loop(configs, i + 1,
                  Traversal(r.stack, r.parsed, "none", <<>>), fls,
                  Append(ret, configs[i]) \o r.ret)

RECURSIVE config_paths(_, _, _, _, _)

\* Config.__init__: for path in paths: self.paths.append(path);
\*                                      self.paths += Config.get_extra_configs(path)
config_paths(paths, i, st, fls, acc) ==
    IF i > Len(paths)
    THEN Traversal(st.stack, st.parsed, "none", acc)
    ELSE LET r == get_extra_configs(paths[i], st, fls) IN
         IF r.err # "none" THEN r
         ELSE config_paths(paths, i + 1, Traversal(r.stack, r.parsed, "none", <<>>),
                  fls, Append(acc, paths[i]) \o r.ret)

\* The fields of a Config before any layer is merged.
EmptyConfig ==
    [ fqbn |-> <<"None">>,
      cflags |-> <<>>,
      debug_command |-> <<default_debug_command>>,
      baudrate |-> <<default_baudrate>>,
      lib_paths |-> <<>>,
      qmake_dirs |-> <<>>,
      qmake_exclude_dirs |-> <<>> ]

\* merge_layer with a layer's cflags put in front of the ones merged so far
merge_layer_prepend(cfg, f, keys) ==
    [ cfg EXCEPT !.fqbn = IF "fqbn" \in keys THEN FqbnOf[f] ELSE @,
                 !.cflags = IF "cflags" \in keys THEN CflagsOf[f] \o @ ELSE @ ]

\* for key in data.keys(): ... of one layer
merge_layer(cfg, f, keys) ==
    [ fqbn |-> IF "fqbn" \in keys THEN FqbnOf[f] ELSE cfg.fqbn,
      cflags |-> IF "cflags" \in keys THEN cfg.cflags \o CflagsOf[f] ELSE cfg.cflags,
      debug_command |-> IF "debug_command" \in keys THEN DebugCommandOf[f]
                        ELSE cfg.debug_command,
      baudrate |-> IF "baudrate" \in keys THEN BaudrateOf[f] ELSE cfg.baudrate,
      lib_paths |-> IF "libs" \in keys THEN cfg.lib_paths \o LibsOf[f]
                    ELSE cfg.lib_paths,
      qmake_dirs |-> IF "qmake_dirs" \in keys THEN cfg.qmake_dirs \o QmakeDirsOf[f]
                     ELSE cfg.qmake_dirs,
      qmake_exclude_dirs |-> IF "qmake_exclude_dirs" \in keys
                             THEN cfg.qmake_exclude_dirs \o QmakeExcludeDirsOf[f]
                             ELSE cfg.qmake_exclude_dirs ]

\* What a Config() call leaves behind.
Outcome(e, mains, paths, cfg, stack, counts) ==
    [ err |-> e, main_paths |-> mains, paths |-> paths, fields |-> cfg,
      stack |-> stack, parsed |-> counts ]

RECURSIVE merge_layers(_, _, _, _, _)

\* Config.__init__: for path in self.paths: open, yaml.safe_load, merge the keys
merge_layers(paths, i, cfg, counts, fls) ==
    IF i > Len(paths)
    THEN [err |-> "none", fields |-> cfg, parsed |-> counts]
    ELSE IF fls[paths[i]].kind # "file"
         THEN [err |-> "ConfigIOError", fields |-> cfg, parsed |-> counts]
         ELSE merge_layers(paths, i + 1, merge_layer(cfg, paths[i], fls[paths[i]].keys),
                           [counts EXCEPT ![paths[i]] = @ + 1], fls)

\* fqbn_check left out
fqbn_check_skipped(cfg) == "none"

\* if self.fqbn is None: Error.exit_on_error(...)
fqbn_check(cfg) ==
    IF cfg.fqbn = <<"None">> THEN "MissingRequiredField" ELSE "none"

\* Config(paths), called with the class-level stack as it stands.
Config(paths, stack, fls) ==
    LET t == config_paths(paths, 1, Traversal(stack, NoCounts, "none", <<>>), fls, <<>>) IN
    IF t.err # "none"
    THEN Outcome(t.err, paths, <<>>, EmptyConfig, t.stack, t.parsed)
    ELSE LET m == merge_layers(t.ret, 1, EmptyConfig, t.parsed, fls) IN
         IF m.err # "none"
         THEN Outcome(m.err, paths, t.ret, m.fields, t.stack, m.parsed)
         ELSE Outcome(fqbn_check(m.fields), paths, t.ret, m.fields, t.stack, m.parsed)

NoConfig == Outcome("none", <<>>, <<>>, EmptyConfig, <<>>, NoCounts)


-----------------------------------------------------------------------------
(* Paths of the output files, and what is on disk at them *)

Stems == {"Makefile", "proj"}
Exts == {"", ".pro", ".pri"}
Locations == [stem : Stems, ext : Exts]

Loc(stem, ext) == [stem |-> stem, ext |-> ext]

\* Path.with_extension (pathlib's with_suffix)
with_extension(loc, ext) == [loc EXCEPT !.ext = ext]

Absent == [kind |-> "absent", lines |-> <<>>, mode |-> "none"]
Directory == [kind |-> "dir", lines |-> <<>>, mode |-> "0755"]
File(lines) == [kind |-> "file", lines |-> lines, mode |-> "0644"]

\* os.chmod(path, 0o0755)
chmod(c) == [c EXCEPT !.mode = "0755"]

\* Path.exists, Path.isfile, Path.isdir, Path.isemptyfile
exists(c) == c.kind # "absent"
isfile(c) == c.kind = "file"
isdir(c) == c.kind = "dir"
isemptyfile(c) == isfile(c) /\ c.lines = <<>>

\* generated_by_us looking at the first line only
generated_by_us_first_line(c) ==
    c.lines # <<>> /\ StartsWith(c.lines[1], generated_by_us_string)

\* Path.generated_by_us: some line of the file starts with the marker string
generated_by_us(c) ==
    \E i \in 1..Len(c.lines) : StartsWith(c.lines[i], generated_by_us_string)

\* safely_remove_or_exit that accepts what it would remove and leaves it there
safely_remove_or_exit_kept(c) ==
    IF ~exists(c) THEN [err |-> "none", after |-> c]
    ELSE IF ~isfile(c) THEN [err |-> "UnsafeOverwrite", after |-> c]
    ELSE IF ~generated_by_us(c) /\ ~isemptyfile(c)
         THEN [err |-> "UnsafeOverwrite", after |-> c]
         ELSE [err |-> "none", after |-> c]

\* safely_remove_or_exit without the look at the file's content
safely_remove_or_exit_unchecked(c) ==
    IF ~exists(c) THEN [err |-> "none", after |-> c]
    ELSE IF ~isfile(c) THEN [err |-> "UnsafeOverwrite", after |-> c]
    ELSE [err |-> "none", after |-> Absent]

\* Path.safely_remove_or_exit: the error raised, and what is on disk afterwards
safely_remove_or_exit(c) ==
    IF ~exists(c) THEN [err |-> "none", after |-> c]
    ELSE IF ~isfile(c) THEN [err |-> "UnsafeOverwrite", after |-> c]
    ELSE IF ~generated_by_us(c) /\ ~isemptyfile(c)
         THEN [err |-> "UnsafeOverwrite", after |-> c]
         ELSE [err |-> "none", after |-> Absent]

\* Path.write_lines: open(path, "a") and writelines
write_lines(c, lines) == File(c.lines \o lines)

\* The removals and writes a step adds to the log.
Removal(loc, before, after) ==
    IF before # after THEN << <<"remove", loc>> >> ELSE <<>>

RECURSIVE check_exist(_, _, _)

\* Path.check_files_exist / Path.check_dirs_exist over the kinds found on disk;
\* want is "file" or "dir"
check_exist(kinds, i, want) ==
    IF i > Len(kinds) THEN "none"
    ELSE IF kinds[i] = "absent" THEN "RequiredFileMissing"
    ELSE IF kinds[i] # want THEN "RequiredFileWrongType"
    ELSE check_exist(kinds, i + 1, want)

check_files_exist(kinds) == check_exist(kinds, 1, "file")

check_dirs_exist(kinds) == check_exist(kinds, 1, "dir")

DiskKinds == {"file", "absent", "dir"}

-----------------------------------------------------------------------------
(* Template rendering *)

RECURSIVE replace(_, _, _)

\* str.replace(token, value) on a line of chunks
replace(line, token, value) ==
    IF line = <<>> THEN <<>>
    ELSE (IF Head(line) = token THEN value ELSE <<Head(line)>>)
         \o replace(Tail(line), token, value)

RECURSIVE join(_, _)

\* sep.join(items), every item a sequence of chunks
join(sep, items) ==
    IF items = <<>> THEN <<>>
    ELSE IF Len(items) = 1 THEN items[1]
    ELSE items[1] \o <<sep>> \o join(sep, Tail(items))

\* str(path) of a Path, a class that defines no __str__
str(p) == <<"<__main__.Path object>">>

\* Path.rel_path of a path that is not Absolute
rel_path(p) == <<"rel:">> \o p.path

\* Makefile.replace_tokens, LIBS_PLACEHOLDER: the text naming one library
lib_path_string(lib) ==
    IF lib.type = "User" THEN <<"$(HOME)", "/">> \o rel_path(lib)
    ELSE IF lib.type = "Relative" THEN <<"$(MAKEFILE_DIR)", "/">> \o rel_path(lib)
    ELSE str(lib)

library_line(lib) == <<"\t\t--library \"">> \o lib_path_string(lib) \o <<"\" \\", "\n">>

\* Makefile.replace_tokens(line): the lines one template line turns into
makefile_replace_tokens(line, cfg, makefile) ==
    IF InSeq("LIBS_PLACEHOLDER", line)
    THEN [i \in 1..Len(cfg.lib_paths) |-> library_line(cfg.lib_paths[i])]
    ELSE IF InSeq("FQBN_PLACEHOLDER", line)
    THEN << replace(line, "FQBN_PLACEHOLDER", cfg.fqbn) >>
    ELSE IF InSeq("BINDIR_PLACEHOLDER", line)
    THEN << replace(line, "BINDIR_PLACEHOLDER",
                    IF makefile.ext # "" THEN <<"bin", makefile.ext>> ELSE <<"bin">>) >>
    ELSE IF InSeq("BINFILE_PLACEHOLDER", line)
    THEN << replace(line, "BINFILE_PLACEHOLDER", <<"sketch", ".ino.bin">>) >>
    ELSE IF InSeq("CFLAGS_PLACEHOLDER", line)
    THEN << replace(line, "CFLAGS_PLACEHOLDER", join(" ", cfg.cflags)) >>
    ELSE IF InSeq("SKETCH_NOEXT_PLACEHOLDER", line)
    THEN << replace(line, "SKETCH_NOEXT_PLACEHOLDER", <<"rel:", "sketch">>) >>
    ELSE IF InSeq("DEBUG_COMMAND_PLACEHOLDER", line)
    THEN << replace(line, "DEBUG_COMMAND_PLACEHOLDER", cfg.debug_command) >>
    ELSE IF InSeq("BAUDRATE_PLACEHOLDER", line)
    THEN << replace(line, "BAUDRATE_PLACEHOLDER", cfg.baudrate) >>
    ELSE << line >>

RECURSIVE makefile_out_lines(_, _, _, _)

\* Makefile.generate: for line in in_lines: out_lines += self.replace_tokens(line, ..)
makefile_out_lines(in_lines, i, cfg, makefile) ==
    IF i > Len(in_lines) THEN <<>>
    ELSE makefile_replace_tokens(in_lines[i], cfg, makefile)
         \o makefile_out_lines(in_lines, i + 1, cfg, makefile)

\* Does rendering reach the Path.check_dirs_exist of the LIBS_PLACEHOLDER branch?
checks_libs(in_lines) ==
    \E i \in 1..Len(in_lines) : InSeq("LIBS_PLACEHOLDER", in_lines[i])

\* The Makefile templates a run may be given.
MakefileTemplates ==
    { << <<"FQBN = ", "FQBN_PLACEHOLDER", "\n">>,
         <<"LIBS_PLACEHOLDER", "\n">>,
         <<"CFLAGS = ", "CFLAGS_PLACEHOLDER", "\n">>,
         <<"BINDIR = ", "BINDIR_PLACEHOLDER", "\n">>,
         <<"BINFILE = ", "BINFILE_PLACEHOLDER", "\n">>,
         <<"SKETCH = ", "SKETCH_NOEXT_PLACEHOLDER", "\n">>,
         <<"DEBUG = ", "DEBUG_COMMAND_PLACEHOLDER", "\n">>,
         <<"BAUD = ", "BAUDRATE_PLACEHOLDER", "\n">>,
         <<"all: build", "\n">> >>,
      << <<"FQBN = ", "FQBN_PLACEHOLDER", "\n">>,
         <<"all: build", "\n">> >> }

-----------------------------------------------------------------------------
(* Qmake *)

\* Path(args.makefile, os.getcwd()) and the like: a location as a Path
path_of_loc(loc) == PathOf("Relative", <<loc.stem, loc.ext>>)

\* Path.parent_dir: os.path.dirname, the path without its last component
parent_dir(p) == PathOf(p.type, Front(p.path))

RECURSIVE headers_dirs(_, _, _, _)

\* Qmake.headers_dirs: prev is <<>> for None, else <<prev_header_dir>>
headers_dirs(headers, i, prev, ret) ==
    IF i > Len(headers) THEN ret
    ELSE LET header_dir == parent_dir(headers[i]) IN
         IF prev # <<>> /\ prev[1].path = header_dir.path
         THEN headers_dirs(headers, i + 1, prev, ret)
         ELSE headers_dirs(headers, i + 1, <<header_dir>>,
                  IF \E j \in 1..Len(ret) : ret[j].path = header_dir.path
                  THEN ret ELSE Append(ret, header_dir))

\* Qmake.get_other_files
get_other_files(makefile, paths) ==
    <<path_of_loc(makefile)>> \o [i \in 1..Len(paths) |-> PathOf("Relative", <<paths[i]>>)]

\* Qmake.to_qmake_file_directive
to_qmake_file_directive(file_path) ==
    <<"\t">>
    \o (IF file_path.type = "User" THEN <<"$$HOME/">> \o rel_path(file_path)
        ELSE IF file_path.type = "Absolute" THEN file_path.path
        ELSE rel_path(file_path))
    \o <<" \\", "\n">>

\* Qmake.to_qmake_define: drop the leading -D, escape the escaped quotes
to_qmake_define(define) == replace(Tail(define), "\\\"", <<"\\\\\\\"">>)

RECURSIVE file_directives(_, _, _)

\* Qmake.replace_tokens: the directives of the paths whose type is asked for;
\* include is the set of the types included
file_directives(paths, i, include) ==
    IF i > Len(paths) THEN <<>>
    ELSE (IF paths[i].type \in include
          THEN << to_qmake_file_directive(paths[i]) >> ELSE <<>>)
         \o file_directives(paths, i + 1, include)

\* Qmake.replace_tokens(line, ...)
qmake_replace_tokens(line, q, sc, defs, include) ==
    IF InSeq("TARGET_PLACEHOLDER", line)
    THEN << replace(line, "TARGET_PLACEHOLDER",
                    rel_path(path_of_loc(with_extension(q.script_path, "")))) >>
    ELSE IF InSeq("MAKEFILE_PLACEHOLDER", line)
    THEN << replace(line, "MAKEFILE_PLACEHOLDER", rel_path(path_of_loc(q.makefile_path))) >>
    ELSE IF InSeq("PRIFILE_PLACEHOLDER", line)
    THEN << replace(line, "PRIFILE_PLACEHOLDER", rel_path(path_of_loc(q.prifile_path))) >>
    ELSE IF InSeq("DEFINES_PLACEHOLDER", line)
    THEN [i \in 1..Len(defs) |-> <<"\t">> \o to_qmake_define(defs[i]) \o <<" \\", "\n">>]
    ELSE IF InSeq("OTHER_FILES_PLACEHOLDER", line)
    THEN file_directives(sc.other_files, 1, include)
    ELSE IF InSeq("SOURCES_PLACEHOLDER", line)
    THEN file_directives(sc.sources, 1, include)
    ELSE IF InSeq("HEADERS_PLACEHOLDER", line)
    THEN file_directives(sc.headers, 1, include)
    ELSE IF InSeq("INCLUDEPATH_PLACEHOLDER", line)
    THEN file_directives(sc.includepaths, 1, include)
    ELSE << line >>

RECURSIVE qmake_out_lines(_, _, _, _, _, _)

\* Qmake.generate: for line in in_lines: out_lines += self.replace_tokens(line, ...)
qmake_out_lines(in_lines, i, q, sc, defs, include) ==
    IF i > Len(in_lines) THEN <<>>
    ELSE qmake_replace_tokens(in_lines[i], q, sc, defs, include)
         \o qmake_out_lines(in_lines, i + 1, q, sc, defs, include)

\* Qmake.__init__: the paths a Qmake works on
Qmake(qmake_path, makefile_path) ==
    [ path |-> qmake_path,
      prifile_path |-> with_extension(qmake_path, ".pri"),
      makefile_path |-> makefile_path,
      script_path |-> with_extension(qmake_path, "") ]

\* Qmake.create_runscript: the lines of the helper script
runscript_lines(q) ==
    << <<"#!/bin/sh", "\n">> >> \o header_strings
    \o << <<"make -f ">> \o rel_path(path_of_loc(q.makefile_path)) \o <<" run", "\n">> >>

\* The qmake templates (.pro and .pri) a run may be given.
QmakeTemplates ==
    { << <<"TARGET = ", "TARGET_PLACEHOLDER", "\n">>,
         <<"MAKEFILE = ", "MAKEFILE_PLACEHOLDER", "\n">>,
         <<"include(", "PRIFILE_PLACEHOLDER", ")", "\n">>,
         <<"DEFINES += \\", "\n">>,
         <<"DEFINES_PLACEHOLDER", "\n">>,
         <<"OTHER_FILES_PLACEHOLDER", "\n">>,
         <<"HEADERS_PLACEHOLDER", "\n">>,
         <<"SOURCES_PLACEHOLDER", "\n">>,
         <<"INCLUDEPATH_PLACEHOLDER", "\n">> >> }

NoScan == [other_files |-> <<>>, headers |-> <<>>, sources |-> <<>>, includepaths |-> <<>>]

RECURSIVE command_defines(_, _, _)

\* Qmake.get_defines: the -D tokens of one command line, each kept once
command_defines(cmd, i, defs) ==
    IF i > Len(cmd) THEN defs
    ELSE command_defines(cmd, i + 1,
             IF Head(cmd[i]) = "-D" /\ ~InSeq(cmd[i], defs)
             THEN Append(defs, cmd[i]) ELSE defs)

RECURSIVE output_defines(_, _, _)

\* Qmake.get_defines: over the command lines of the build's output, the ones of
\* arduino-cli skipped
output_defines(cmds, i, defs) ==
    IF i > Len(cmds) THEN defs
    ELSE output_defines(cmds, i + 1,
             IF cmds[i][1] = <<"arduino-cli">> THEN defs
             ELSE command_defines(cmds[i], 1, defs))

\* Qmake.get_defines, given how the make invocations ended and what they printed
get_defines(outcome, cmds) ==
    IF outcome = "launch_failed" THEN [err |-> "BuildLaunchFailure", defines |-> <<>>]
    ELSE IF outcome = "exit_nonzero" THEN [err |-> "none", defines |-> <<>>]
    ELSE [err |-> "none", defines |-> output_defines(cmds, 1, <<>>)]

BuildOutcomes == {"exit_zero", "exit_nonzero", "launch_failed"}

\* The command traces a successful build may print.
BuildOutputs ==
    { <<>>,
      << << <<"arduino-cli">>, <<"-D", "SKIPPED">> >>,
         << <<"g++">>, <<"-D", "F_CPU=16">>, <<"-D", "NAME=", "\\\"", "x", "\\\"">>,
            <<"-c">>, <<"-D", "F_CPU=16">> >> >> }

-----------------------------------------------------------------------------
(* main(): one run of the program *)

\* The documents of the runs: A includes at most one document, B is a leaf.
RunFileSets ==
    { f \in FileSets : /\ Len(f["A"].configs) <= 1
                       /\ f["B"].configs = <<>>
                       /\ f["B"].keys = AllKeys }

\* The --config arguments of the runs.
RunMains == { <<"A">>, <<"X">>, <<"B", "A">> }

\* --makefile; the last one is refused
MakefileArgs == { Loc("Makefile", e) : e \in Exts } \cup { Loc("proj", "") }

\* --qmake: <<>> when the option is not given; the last one is refused
QmakeArgs == { <<>> } \cup { <<Loc(st, ".pro")>> : st \in Stems } \cup { <<Loc("proj", ".pri")>> }

\* os.path.basename(args.makefile).startswith("Makefile")
makefile_name_ok(a) == a.makefile.stem = "Makefile"

\* args.qmake.endswith(".pro")
qmake_name_ok(a) == a.qmake = <<>> \/ a.qmake[1].ext = ".pro"

\* The files a run with these arguments generates.
Targets(a) ==
    {a.makefile} \cup
    (IF a.qmake = <<>> THEN {}
     ELSE LET q == Qmake(a.qmake[1], a.makefile) IN {q.path, q.prifile_path, q.script_path})

\* A file the user wrote: not empty, no marker line.
UserFile == File(<< <<"all: mine", "\n">> >>)

\* What may be at a target before the run: nothing, a user's file, a file an
\* earlier run left.
InitialContents == { Absent, UserFile, File(header_strings) }

InitialFs(a) ==
    IF makefile_name_ok(a) /\ qmake_name_ok(a)
    THEN { f \in [Locations -> InitialContents] :
             \A l \in Locations \ Targets(a) : f[l] = Absent }
    ELSE { [l \in Locations |-> Absent] }

\* No record of what the run found: each step finds what it finds.
NoEnv == [required |-> "none", makefile_template |-> <<>>, lib_kinds |-> <<>>,
          tree |-> <<>>, outcome |-> "none", cmds |-> <<>>, qmake_template |-> <<>>,
          pri_template |-> "none"]

NoArgs == [config |-> <<>>, makefile |-> Loc("Makefile", ""), qmake |-> <<>>]
NoFs == [l \in Locations |-> Absent]

Init ==
    /\ files \in RunFileSets
    /\ args \in [config : RunMains, makefile : MakefileArgs, qmake : QmakeArgs]
    /\ fs \in InitialFs(args)
    /\ fs0 = fs
    /\ extra_config_stack = <<>>
    /\ parsed = NoCounts
    /\ config = NoConfig
    /\ oplog = <<>>
    /\ pc = "start"
    /\ err = "none"
    /\ scan = NoScan
    /\ build = "none"
    /\ defines = <<>>
    /\ run = 1
    /\ env = NoEnv

\* main() with the project file generated first
step_after_config_qmake_first(a) == IF a.qmake # <<>> THEN "qmake" ELSE "makefile"

\* main(): what follows Config(), Makefile.generate() and Qmake.generate()
step_after_config(a) == "makefile"

step_after_makefile(a) == IF a.qmake # <<>> THEN "qmake" ELSE "done"

step_after_qmake(a) == "done"

\* An uncaught exception ends the run.
Raise(e) == pc' = "failed" /\ err' = e

\* main(): the checks of the --makefile and --qmake names
ParseArgs ==
    /\ pc = "start"
    /\ IF ~makefile_name_ok(args) THEN Raise("BadMakefileName")
       ELSE IF ~qmake_name_ok(args) THEN Raise("BadQmakeName")
       ELSE pc' = "check" /\ err' = err
    /\ UNCHANGED <<run, env, files, extra_config_stack, parsed, config, args, fs0, fs, oplog,
                   scan, build, defines>>

\* main(): Path.check_files_exist(required_files); the sketch and the templates
\* are as the run finds them
CheckFilesExistOn(sketch, mt, qt) ==
    /\ pc = "check"
    /\   LET required_files ==
                 <<sketch>> \o [i \in 1..Len(args.config) |-> files[args.config[i]].kind]
                 \o <<mt>> \o (IF args.qmake # <<>> THEN <<qt>> ELSE <<>>)
             e == check_files_exist(required_files)
         IN  IF e # "none" THEN Raise(e) ELSE pc' = "config" /\ err' = err
    /\ UNCHANGED <<run, env, files, extra_config_stack, parsed, config, args, fs0, fs, oplog,
                   scan, build, defines>>

CheckFilesExist ==
    \E sketch \in DiskKinds, mt \in DiskKinds, qt \in DiskKinds :
       CheckFilesExistOn(sketch, mt, qt)

\* main(): config = Config(config_paths)
ComposeConfig ==
    /\ pc = "config"
    /\ LET c == Config(args.config, extra_config_stack, files) IN
       /\ config' = c
       /\ extra_config_stack' = c.stack
       /\ parsed' = c.parsed
       /\ IF c.err # "none" THEN Raise(c.err)
          ELSE pc' = step_after_config(args) /\ err' = err
    /\ UNCHANGED <<run, env, files, args, fs0, fs, oplog, scan, build, defines>>

\* The library directories the configuration documents name.
LibPaths == { LibsOf[f][1] : f \in ConfigNames }

\* Makefile.generate, given the template's lines and what is on disk at the
\* library paths
MakefileGenerateOn(in_lines, kinds) ==
    /\ pc = "makefile"
    /\ LET mk == args.makefile
           rm == safely_remove_or_exit(fs[mk])
           removal == Removal(mk, fs[mk], rm.after)
           libs == config.fields.lib_paths
       IN  IF rm.err # "none"
           THEN Raise(rm.err) /\ UNCHANGED <<fs, oplog>>
           ELSE   LET e == IF checks_libs(in_lines)
                           THEN check_dirs_exist([i \in 1..Len(libs) |-> kinds[libs[i]]])
                           ELSE "none"
                      out_lines == header_strings
                                   \o makefile_out_lines(in_lines, 1, config.fields, mk)
                  IN  IF e # "none"
                      THEN /\ Raise(e)
                           /\ fs' = [fs EXCEPT ![mk] = rm.after]
                           /\ oplog' = oplog \o removal
                      ELSE /\ fs' = [fs EXCEPT ![mk] = write_lines(rm.after, out_lines)]
                           /\ oplog' = oplog \o removal \o << <<"write", mk>> >>
                           /\ pc' = step_after_makefile(args)
                           /\ err' = err
    /\ UNCHANGED <<run, env, files, extra_config_stack, parsed, config, args, fs0, scan, build, defines>>

MakefileGenerate ==
    \E in_lines \in MakefileTemplates, kinds \in [LibPaths -> DiskKinds] :
       MakefileGenerateOn(in_lines, kinds)

\* The Qmake of this run.
TheQmake == Qmake(args.qmake[1], args.makefile)

\* The sketch as Qmake.__init__ holds it: relative to the project file's directory.
sketch_path == PathOf("Relative", <<"sketch.ino">>)

\* Path.path: the canonical location, the base directory of the domain in
\* front of a path that is Relative or User
location(p) ==
    (IF p.type = "Relative" THEN <<"/cwd/">>
     ELSE IF p.type = "User" THEN <<"/home/">> ELSE <<>>) \o p.path

\* An entry of the disk below the scanned directories: its real path, whether
\* it is a file, and os.path.splitext(raw)[-1]
Entry(raw, kind, ext) == [raw |-> raw, kind |-> kind, ext |-> ext]

\* The working directory with the sketch and nothing else.
BareTree ==
    << Entry(<<"/cwd/">>, "dir", ""),
       Entry(<<"/cwd/", "sketch.ino">>, "file", ".ino") >>

\* A disk without anything below the directory xdir.
PlainTree ==
    << Entry(<<"/cwd/">>, "dir", ""),
       Entry(<<"/cwd/", "libA">>, "dir", ""),
       Entry(<<"/cwd/", "libA", "/a.h">>, "file", ".h"),
       Entry(<<"/cwd/", "qdir">>, "dir", ""),
       Entry(<<"/cwd/", "qdir", "/q.hpp">>, "file", ".hpp"),
       Entry(<<"/cwd/", "sketch.ino">>, "file", ".ino"),
       Entry(<<"/cwd/", "src">>, "dir", ""),
       Entry(<<"/cwd/", "src", "/a.h">>, "file", ".h"),
       Entry(<<"/cwd/", "src", "/b.h">>, "file", ".h"),
       Entry(<<"/cwd/", "src", "/a.cpp">>, "file", ".cpp"),
       Entry(<<"/cwd/", "src", "/notes.txt">>, "file", ".txt"),
       Entry(<<"/cwd/", "src", "/gen.h">>, "dir", ".h"),
       Entry(<<"/libB">>, "dir", ""),
       Entry(<<"/libB", "/b.h">>, "file", ".h"),
       Entry(<<"/home/", "libX">>, "dir", ""),
       Entry(<<"/home/", "libX", "/x.h">>, "file", ".h") >>

\* The same disk with a header and a source below xdir.
FullTree ==
    PlainTree \o
    << Entry(<<"/cwd/", "xdir">>, "dir", ""),
       Entry(<<"/cwd/", "xdir", "/x.h">>, "file", ".h"),
       Entry(<<"/cwd/", "xdir", "/x.c">>, "file", ".c") >>

\* The disks a run may scan.
DiskTrees == { BareTree, PlainTree, FullTree }

\* Qmake.__init__: self.included_dirs and self.excluded_dirs
included_dirs(cfg) == <<parent_dir(sketch_path)>> \o cfg.lib_paths \o cfg.qmake_dirs

excluded_dirs(cfg) == cfg.qmake_exclude_dirs

\* Qmake.is_rawpath_excluded
is_rawpath_excluded(raw_real_path, excluded) ==
    \E i \in 1..Len(excluded) : StartsWith(raw_real_path, str(excluded[i]))

\* Qmake.path_from_ancestor: the path found, in the domain of the directory it
\* was found under
path_from_ancestor(ancestor, raw_path) ==
    IF ancestor.type = "User" THEN PathOf("User", Tail(raw_path))
    ELSE IF ancestor.type = "Absolute" THEN PathOf("Absolute", raw_path)
    ELSE PathOf("Relative", Tail(raw_path))

RECURSIVE get_files_loop(_, _, _, _, _, _, _, _)

\* Qmake.get_files: the loops over the included directories (d) and over what
\* glob finds below each (i: the entries of the disk that the directory prefixes)
get_files_loop(tree, dirs, excluded, extensions, d, i, ret, raw_paths) ==
    IF d > Len(dirs) THEN ret
    ELSE IF i > Len(tree)
    THEN get_files_loop(tree, dirs, excluded, extensions, d + 1, 1, ret, raw_paths)
    ELSE LET e == tree[i]
             skip == \/ ~StartsWith(e.raw, location(dirs[d]))
                     \/ is_rawpath_excluded(e.raw, excluded)
                     \/ e.kind # "file"
                     \/ e.ext \notin extensions
                     \/ InSeq(e.raw, raw_paths)
         IN  IF skip
             THEN get_files_loop(tree, dirs, excluded, extensions, d, i + 1, ret, raw_paths)
             ELSE get_files_loop(tree, dirs, excluded, extensions, d, i + 1,
                      Append(ret, path_from_ancestor(dirs[d], e.raw)),
                      Append(raw_paths, e.raw))

\* Qmake.get_files(extensions)
get_files(tree, cfg, extensions) ==
    get_files_loop(tree, included_dirs(cfg), excluded_dirs(cfg), extensions,
                   1, 1, <<>>, <<>>)

\* Qmake.generate, the removals and the scans, given the disk they scan
QmakeBeginOn(tree) ==
    /\ pc = "qmake"
    /\ LET q == TheQmake
           rm1 == safely_remove_or_exit(fs[q.path])
           fs1 == [fs EXCEPT ![q.path] = rm1.after]
           log1 == oplog \o Removal(q.path, fs[q.path], rm1.after)
           rm2 == safely_remove_or_exit(fs1[q.prifile_path])
           fs2 == [fs1 EXCEPT ![q.prifile_path] = rm2.after]
           log2 == log1 \o Removal(q.prifile_path, fs1[q.prifile_path], rm2.after)
       IN  IF rm1.err # "none"
           THEN Raise(rm1.err) /\ UNCHANGED <<fs, oplog, scan>>
           ELSE IF rm2.err # "none"
           THEN Raise(rm2.err) /\ fs' = fs1 /\ oplog' = log1 /\ scan' = scan
           ELSE   LET headers == get_files(tree, config.fields, {".h", ".hpp"})
                      sources == get_files(tree, config.fields, {".c", ".cpp"})
                  IN
                  /\ scan' = [ other_files |-> get_other_files(q.makefile_path, config.paths),
                               headers |-> headers,
                               sources |-> <<sketch_path>> \o sources,
                               includepaths |-> headers_dirs(headers, 1, <<>>, <<>>) ]
                  /\ fs' = fs2
                  /\ oplog' = log2
                  /\ pc' = "defines"
                  /\ err' = err
    /\ UNCHANGED <<run, env, files, extra_config_stack, parsed, config, args, fs0, build, defines>>

QmakeBegin == \E tree \in DiskTrees : QmakeBeginOn(tree)

\* Qmake.generate: defines = Qmake.get_defines(self.makefile_path), given how
\* the build ends and what it prints
GetDefinesOn(outcome, cmds) ==
    /\ pc = "defines"
    /\   LET r == get_defines(outcome, cmds) IN
         /\ build' = outcome
         /\ defines' = r.defines
         /\ IF r.err # "none" THEN Raise(r.err) ELSE pc' = "pro" /\ err' = err
    /\ UNCHANGED <<run, env, files, extra_config_stack, parsed, config, args, fs0, fs, oplog, scan>>

GetDefines ==
    \E outcome \in BuildOutcomes, cmds \in BuildOutputs : GetDefinesOn(outcome, cmds)

\* Qmake.generate: the project file, given the template's lines
QmakeWriteProOn(in_lines) ==
    /\ pc = "pro"
    /\   LET q == TheQmake
             out_lines == header_strings
                          \o qmake_out_lines(in_lines, 1, q, scan, defines, {"Relative"})
         IN  /\ fs' = [fs EXCEPT ![q.path] = write_lines(fs[q.path], out_lines)]
             /\ oplog' = Append(oplog, <<"write", q.path>>)
    /\ pc' = "pri"
    /\ UNCHANGED <<run, env, files, extra_config_stack, parsed, config, args, fs0, err, scan, build, defines>>

QmakeWritePro == \E in_lines \in QmakeTemplates : QmakeWriteProOn(in_lines)

\* Qmake.generate: the .pri file; its template is first looked for here
QmakeWritePriOn(template, in_lines) ==
    /\ pc = "pri"
    /\   IF template # "file"
         THEN Raise("TemplateIOError") /\ UNCHANGED <<fs, oplog>>
         ELSE   LET q == TheQmake
                    out_lines == header_strings
                                 \o qmake_out_lines(in_lines, 1, q, scan, defines,
                                                    {"Absolute", "User"})
                IN  /\ fs' = [fs EXCEPT ![q.prifile_path] =
                                           write_lines(fs[q.prifile_path], out_lines)]
                    /\ oplog' = Append(oplog, <<"write", q.prifile_path>>)
                    /\ pc' = "script"
                    /\ err' = err
    /\ UNCHANGED <<run, env, files, extra_config_stack, parsed, config, args, fs0, scan, build, defines>>

QmakeWritePri ==
    \E template \in DiskKinds, in_lines \in QmakeTemplates :
       QmakeWritePriOn(template, in_lines)

\* Qmake.create_runscript
CreateRunscript ==
    /\ pc = "script"
    /\ LET q == TheQmake
           rm == safely_remove_or_exit(fs[q.script_path])
       IN  IF rm.err # "none"
           THEN Raise(rm.err) /\ UNCHANGED <<fs, oplog>>
           ELSE /\ fs' = [fs EXCEPT ![q.script_path] =
                                      chmod(write_lines(rm.after, runscript_lines(q)))]
                /\ oplog' = oplog \o Removal(q.script_path, fs[q.script_path], rm.after)
                                  \o << <<"write", q.script_path>> >>
                /\ pc' = step_after_qmake(args)
                /\ err' = err
    /\ UNCHANGED <<run, env, files, extra_config_stack, parsed, config, args, fs0, scan, build, defines>>

Next ==
    \/ ParseArgs
    \/ CheckFilesExist
    \/ ComposeConfig
    \/ MakefileGenerate
    \/ QmakeBegin
    \/ GetDefines
    \/ QmakeWritePro
    \/ QmakeWritePri
    \/ CreateRunscript

Spec == Init /\ [][Next]_vars

-----------------------------------------------------------------------------
(* Config() on its own: one call in a fresh process, and call after call in *)
(* one process                                                              *)

InitCompose ==
    /\ files \in FileSets
    /\ extra_config_stack = <<>>
    /\ parsed = NoCounts
    /\ config = NoConfig
    /\ args = NoArgs
    /\ fs = NoFs
    /\ fs0 = fs
    /\ oplog = <<>>
    /\ pc = "compose"
    /\ err = "none"
    /\ scan = NoScan
    /\ build = "none"
    /\ defines = <<>>
    /\ run = 1
    /\ env = NoEnv

\* config = Config(paths); what the call raises is caught by the caller
CallConfig(paths) ==
    /\ pc = "compose"
    /\ LET c == Config(paths, extra_config_stack, files) IN
       /\ config' = c
       /\ extra_config_stack' = c.stack
       /\ parsed' = c.parsed
       /\ err' = c.err
    /\ UNCHANGED <<run, env, files, args, fs0, fs, oplog, scan, build, defines>>

\* the first Config() of a process
FirstCall == \E paths \in MainChoices : CallConfig(paths) /\ pc' = "composed"

NextCompose == FirstCall

SpecCompose == InitCompose /\ [][NextCompose]_vars

\* a Config() after the process has already made one
AnotherCall ==
    \E paths \in MainChoices : CallConfig(paths) /\ pc' = "compose"

NextReentry == AnotherCall

SpecReentry == InitCompose /\ [][NextReentry]_vars

-----------------------------------------------------------------------------
(* Path.safely_remove_or_exit on its own *)

\* The lines a file found at a target may be made of: the marker, other text,
\* the marker's text followed by more, and the marker's text with no newline.
LineChoices ==
    { generated_by_us_string,
      <<"all: mine", "\n">>,
      <<"# Generated by arduino-genmakefile", " by hand", "\n">>,
      <<"# Generated by arduino-genmakefile">> }

\* Only the last line of a file can lack its newline.
WellFormed(lines) ==
    \A i \in 1..Len(lines) : i < Len(lines) => lines[i][Len(lines[i])] = "\n"

ExistingContents ==
    { Absent, Directory }
    \cup { File(lines) : lines \in { l \in SeqsUpTo(LineChoices, MaxLines) : WellFormed(l) } }

TheTarget == Loc("Makefile", "")

InitRemove ==
    /\ files \in { f \in RunFileSets : f["A"].configs = <<>> /\ f["A"].keys = AllKeys
                                       /\ f["X"].kind = "file" }
    /\ args = NoArgs
    /\ \E c \in ExistingContents : fs = [NoFs EXCEPT ![TheTarget] = c]
    /\ fs0 = fs
    /\ extra_config_stack = <<>>
    /\ parsed = NoCounts
    /\ config = NoConfig
    /\ oplog = <<>>
    /\ pc = "remove"
    /\ err = "none"
    /\ scan = NoScan
    /\ build = "none"
    /\ defines = <<>>
    /\ run = 1
    /\ env = NoEnv

\* path.safely_remove_or_exit()
SafelyRemove ==
    /\ pc = "remove"
    /\ LET rm == safely_remove_or_exit(fs[TheTarget]) IN
       /\ fs' = [fs EXCEPT ![TheTarget] = rm.after]
       /\ oplog' = oplog \o Removal(TheTarget, fs[TheTarget], rm.after)
       /\ err' = rm.err
       /\ pc' = IF rm.err # "none" THEN "failed" ELSE "removed"
    /\ UNCHANGED <<run, env, files, extra_config_stack, parsed, config, args, fs0, scan, build, defines>>

NextRemove == SafelyRemove

SpecRemove == InitRemove /\ [][NextRemove]_vars

-----------------------------------------------------------------------------
(* main() run again: the same command line and configuration, the disk as the
   run before left it *)

\* What the runs find: the sketch and the two templates named on the command
\* line are files, the library paths are directories; the Makefile template,
\* the scanned disk, the build and the .pri template vary.
Envs ==
    { [ required |-> "file", makefile_template |-> mt,
        lib_kinds |-> [l \in LibPaths |-> "dir"],
        tree |-> tree, outcome |-> b[1], cmds |-> b[2],
        qmake_template |-> qt, pri_template |-> pri ] :
      mt \in MakefileTemplates, tree \in {BareTree, FullTree},
      b \in ({"exit_zero"} \X BuildOutputs) \cup {<<"exit_nonzero", <<>>>>},
      qt \in QmakeTemplates, pri \in {"file", "absent"} }

\* The targets before the first run: nothing there, or what an earlier run left.
RerunFs(a) ==
    { f \in InitialFs(a) : \E c \in {Absent, File(header_strings)} :
                              \A l \in Targets(a) : f[l] = c }

InitRerun ==
    /\ files \in RunFileSets
    /\ args \in [config : RunMains, makefile : MakefileArgs, qmake : QmakeArgs]
    /\ fs \in RerunFs(args)
    /\ fs0 = fs
    /\ extra_config_stack = <<>>
    /\ parsed = NoCounts
    /\ config = NoConfig
    /\ oplog = <<>>
    /\ pc = "start"
    /\ err = "none"
    /\ scan = NoScan
    /\ build = "none"
    /\ defines = <<>>
    /\ run = 1
    /\ env \in Envs

\* The steps of main() on what env holds.
SameCheckFilesExist == CheckFilesExistOn(env.required, env.required, env.required)

SameMakefileGenerate == MakefileGenerateOn(env.makefile_template, env.lib_kinds)

SameQmakeBegin == QmakeBeginOn(env.tree)

SameGetDefines == GetDefinesOn(env.outcome, env.cmds)

SameQmakeWritePro == QmakeWriteProOn(env.qmake_template)

SameQmakeWritePri == QmakeWritePriOn(env.pri_template, env.qmake_template)

\* The program is started again after a run that ended well: a new process,
\* which finds the outputs as that run left them.
Rerun ==
    /\ pc = "done"
    /\ run = 1
    /\ run' = 2
    /\ pc' = "start"
    /\ fs0' = fs
    /\ extra_config_stack' = <<>>
    /\ parsed' = NoCounts
    /\ config' = NoConfig
    /\ oplog' = <<>>
    /\ scan' = NoScan
    /\ build' = "none"
    /\ defines' = <<>>
    /\ UNCHANGED <<env, files, args, fs, err>>

NextRerun ==
    \/ ParseArgs
    \/ SameCheckFilesExist
    \/ ComposeConfig
    \/ SameMakefileGenerate
    \/ SameQmakeBegin
    \/ SameGetDefines
    \/ SameQmakeWritePro
    \/ SameQmakeWritePri
    \/ CreateRunscript
    \/ Rerun

SpecRerun == InitRerun /\ [][NextRerun]_vars

-----------------------------------------------------------------------------
(* The inclusion graph, as the documents on disk define it *)

Range(s) == { s[i] : i \in 1..Len(s) }

\* The documents a document names in its "configs" list.
Includes(f) == IF files[f].kind = "file" THEN Range(files[f].configs) ELSE {}

RECURSIVE Closure(_)

Closure(S) ==
    LET T == S \cup UNION { Includes(f) : f \in S } IN
    IF T = S THEN S ELSE Closure(T)

\* The documents reachable from the main paths, these included.
Reachable(mains) == Closure(Range(mains))

\* A document that includes itself, directly or through others.
OnCycle(f) == f \in Closure(Includes(f))

Cyclic(mains) == \E f \in Reachable(mains) : OnCycle(f)

AllReadable(mains) == \A f \in Reachable(mains) : files[f].kind = "file"

RECURSIVE Expand(_), ExpandAll(_)

\* A document followed by the expansions of the documents it includes, in order.
Expand(f) == <<f>> \o ExpandAll(files[f].configs)

ExpandAll(fs_) ==
    IF fs_ = <<>> THEN <<>> ELSE Expand(Head(fs_)) \o ExpandAll(Tail(fs_))

RECURSIVE Concat(_, _, _)

\* The lists the documents of paths give to key, one after the other.
Concat(paths, key, table) ==
    IF paths = <<>> THEN <<>>
    ELSE (IF key \in files[Head(paths)].keys THEN table[Head(paths)] ELSE <<>>)
         \o Concat(Tail(paths), key, table)

Sets(paths, i, key) == key \in files[paths[i]].keys

\* The value of the last document of paths that sets key.
LastValue(paths, key, table, default) ==
    IF \E i \in 1..Len(paths) : Sets(paths, i, key)
    THEN LET last == CHOOSE i \in 1..Len(paths) :
                         /\ Sets(paths, i, key)
                         /\ \A j \in (i + 1)..Len(paths) : ~Sets(paths, j, key)
         IN  table[paths[last]]
    ELSE default

-----------------------------------------------------------------------------
(* Claims *)

\* C1 as stated: composing a configuration whose documents can all be read and
\* that has an inclusion cycle fails with CircularInclusion, and at the failure no
\* document has been parsed more than once.
C1_NoDocumentParsedTwice ==
    (pc = "composed" /\ Cyclic(config.main_paths) /\ AllReadable(config.main_paths))
    => /\ err = "CircularInclusion"
       /\ \A f \in ConfigNames : parsed[f] <= 1

\* C1, amended: composing a configuration that has an inclusion cycle never
\* succeeds; it fails with CircularInclusion when every document reached can be
\* read (else with CircularInclusion or ConfigIOError); and when it fails with
\* CircularInclusion, the merge has not begun and every document on the traversal
\* stack, the re-entered one included, has been parsed exactly once.
C1_StackParsedOnce ==
    pc = "composed" =>
      /\ Cyclic(config.main_paths) => err \in {"CircularInclusion", "ConfigIOError"}
      /\ (Cyclic(config.main_paths) /\ AllReadable(config.main_paths))
            => err = "CircularInclusion"
      /\ err = "CircularInclusion" =>
            /\ extra_config_stack # <<>>
            /\ \A i \in 1..Len(extra_config_stack) : parsed[extra_config_stack[i]] = 1
            /\ config.paths = <<>>

\* C1 witness: a failure on a cycle with a document off the stack parsed twice.
C1_Witness ==
    /\ pc = "composed"
    /\ err = "CircularInclusion"
    /\ Len(extra_config_stack) >= 2
    /\ \E f \in ConfigNames : parsed[f] = 2

\* C2: a composition that gets through its layers merges them in the order of the
\* flattened sequence (each main path, then its includes expanded depth first):
\* the list fields are the concatenations of the layers' lists in that order, the
\* scalar fields hold the value of the last layer that sets them, or the default.
C2_MergeInFlattenedOrder ==
    (pc = "composed" /\ err \in {"none", "MissingRequiredField"}) =>
      LET paths == config.paths
          c == config.fields
      IN  /\ paths = ExpandAll(config.main_paths)
          /\ c.cflags = Concat(paths, "cflags", CflagsOf)
          /\ c.lib_paths = Concat(paths, "libs", LibsOf)
          /\ c.qmake_dirs = Concat(paths, "qmake_dirs", QmakeDirsOf)
          /\ c.qmake_exclude_dirs = Concat(paths, "qmake_exclude_dirs", QmakeExcludeDirsOf)
          /\ c.fqbn = LastValue(paths, "fqbn", FqbnOf, <<"None">>)
          /\ c.debug_command = LastValue(paths, "debug_command", DebugCommandOf,
                                         <<default_debug_command>>)
          /\ c.baudrate = LastValue(paths, "baudrate", BaudrateOf, <<default_baudrate>>)

\* C2 witness: three layers or more, two of them setting the baud rate and the
\* compile flags, one of them included from another.
C2_Witness ==
    /\ pc = "composed"
    /\ err = "none"
    /\ Len(config.paths) >= 3
    /\ Len(config.main_paths) < Len(config.paths)
    /\ \E i, j \in 1..Len(config.paths) :
          /\ i < j
          /\ config.paths[i] # config.paths[j]
          /\ Sets(config.paths, i, "baudrate") /\ Sets(config.paths, j, "baudrate")
          /\ Sets(config.paths, i, "cflags") /\ Sets(config.paths, j, "cflags")

\* The documents that can be composed: all readable, no cycle.
Composable(mains) == AllReadable(mains) /\ ~Cyclic(mains)

NoLayerSetsFqbn(mains) ==
    \A f \in Reachable(mains) : files[f].kind = "file" => "fqbn" \notin files[f].keys

\* C3: when no layer sets fqbn, no output file is ever created, written or
\* removed, the run never gets to generating anything, and once Config() has run
\* on documents that can be composed the run has failed with MissingRequiredField.
C3_MissingFqbnTouchesNothing ==
    NoLayerSetsFqbn(args.config) =>
      /\ oplog = <<>>
      /\ fs = fs0
      /\ pc \in {"start", "check", "config", "failed"}
      /\ (config # NoConfig /\ Composable(args.config))
            => (pc = "failed" /\ err = "MissingRequiredField")

\* C3 witness: the run failed on the missing fqbn with an earlier run's Makefile
\* at the target.
C3_Witness ==
    /\ pc = "failed"
    /\ err = "MissingRequiredField"
    /\ NoLayerSetsFqbn(args.config)
    /\ fs[args.makefile] = File(header_strings)

\* C4 as stated: a run that fails an existence or type check, or the fqbn check,
\* has removed and written no output file.
C4_ChecksBeforeDestructiveActions ==
    (pc = "failed" /\ err \in {"RequiredFileMissing", "RequiredFileWrongType",
                               "MissingRequiredField"})
    => oplog = <<>>

TheTargetBefore == fs0[TheTarget]

Deleted == exists(TheTargetBefore) /\ fs[TheTarget] = Absent

HasMarkerLine(c) == \E i \in 1..Len(c.lines) : c.lines[i] = generated_by_us_string

\* C5 as stated: safely_remove_or_exit deletes only a plain file that is empty or
\* whose first line is the marker line; a plain file that is not empty and whose
\* first line is not the marker line is kept, with UnsafeOverwrite.
C5_FirstLineGate ==
    pc \in {"removed", "failed"} =>
      LET c == TheTargetBefore IN
      /\ Deleted => /\ isfile(c)
                    /\ (c.lines = <<>> \/ c.lines[1] = generated_by_us_string)
      /\ (isfile(c) /\ c.lines # <<>> /\ c.lines[1] # generated_by_us_string)
            => (err = "UnsafeOverwrite" /\ fs[TheTarget] = c)

\* C5, amended: safely_remove_or_exit deletes only a plain file that is empty or
\* has the marker line as one of its lines, the first or a later one, and deletes
\* every such file; a plain file that is not empty and has no marker line is kept,
\* with UnsafeOverwrite; so is a directory; nothing happens when nothing is there.
C5_AnyLineGate ==
    pc \in {"removed", "failed"} =>
      LET c == TheTargetBefore IN
      /\ Deleted => (isfile(c) /\ (c.lines = <<>> \/ HasMarkerLine(c)))
      /\ (isfile(c) /\ (c.lines = <<>> \/ HasMarkerLine(c)))
            => (Deleted /\ err = "none")
      /\ (isfile(c) /\ c.lines # <<>> /\ ~HasMarkerLine(c))
            => (err = "UnsafeOverwrite" /\ fs[TheTarget] = c)
      /\ isdir(c) => (err = "UnsafeOverwrite" /\ fs[TheTarget] = c)
      /\ ~exists(c) => (err = "none" /\ fs[TheTarget] = c)

\* C5 witness: a file whose marker line comes after other text has been deleted.
C5_Witness ==
    /\ pc = "removed"
    /\ isfile(TheTargetBefore)
    /\ TheTargetBefore.lines # <<>>
    /\ TheTargetBefore.lines[1] = <<"all: mine", "\n">>
    /\ HasMarkerLine(TheTargetBefore)
    /\ fs[TheTarget] = Absent

\* A file the program did not generate: not empty, no marker line.
Foreign(c) == isfile(c) /\ c.lines # <<>> /\ ~HasMarkerLine(c)

\* The step about to run starts the generation of the artefact at l.
GeneratesNow(l) ==
    \/ pc = "makefile" /\ l = args.makefile
    \/ pc = "qmake" /\ l \in {TheQmake.path, TheQmake.prifile_path}
    \/ pc = "script" /\ l = TheQmake.script_path

\* C6: a target that is a non-empty file without marker line is never changed, and
\* the step that generates its artefact fails with UnsafeOverwrite.
C6_ForeignFileLeftUntouched ==
    [][ \A l \in Targets(args) :
          Foreign(fs[l]) =>
            /\ fs'[l] = fs[l]
            /\ GeneratesNow(l) => (pc' = "failed" /\ err' = "UnsafeOverwrite") ]_vars

\* C6 witness: the run failed on a user's .pri file, after the Makefile was
\* written and the project file removed; the .pri is as it was.
C6_Witness ==
    /\ pc = "failed"
    /\ err = "UnsafeOverwrite"
    /\ args.qmake # <<>>
    /\ fs[TheQmake.prifile_path] = UserFile
    /\ Len(oplog) >= 2

FirstLine(l) == fs[l].lines[1]

Wrote(l) == InSeq(<<"write", l>>, oplog)

\* C8 as stated: a failed build in Qmake.get_defines, whether make exits non-zero
\* or cannot be launched, leaves the definitions empty and does not end the run
\* before the project file is written.
C8_BuildFailureDoesNotAbort ==
    build \in {"exit_nonzero", "launch_failed"} =>
      /\ defines = <<>>
      /\ pc = "failed" => Wrote(TheQmake.path)

\* The primary descriptor as Makefile.generate writes it from some template.
MakefileComplete(c) ==
    /\ isfile(c)
    /\ \E in_lines \in MakefileTemplates :
          c.lines = header_strings
                    \o makefile_out_lines(in_lines, 1, config.fields, args.makefile)

\* C9: when Qmake.generate is about to start, the primary descriptor is on disk,
\* header and body; and whatever Qmake.generate has done (removals, scans, the
\* build of get_defines, writes) comes after the write of the primary descriptor.
C9_PrimaryWrittenBeforeCompanion ==
    /\ pc = "qmake" => /\ MakefileComplete(fs[args.makefile])
                       /\ oplog[Len(oplog)] = <<"write", args.makefile>>
    /\ (pc \in {"qmake", "defines", "pro", "pri", "script"} \/ build # "none"
        \/ scan # NoScan)
          => /\ Wrote(args.makefile)
             /\ \A i \in 1..Len(oplog) :
                   oplog[i] # <<"write", args.makefile>>
                      => (i = 1 /\ oplog[i] = <<"remove", args.makefile>>)
                         \/ \E j \in 1..(i - 1) : oplog[j] = <<"write", args.makefile>>

\* C9 witness: the build of get_defines has been run, after the primary
\* descriptor replaced an earlier one.
C9_Witness ==
    /\ pc = "pro"
    /\ build = "exit_zero"
    /\ fs0[args.makefile] = File(header_strings)
    /\ MakefileComplete(fs[args.makefile])

\* C10 as stated: whenever a Config() call starts, the inclusion stack is empty,
\* and a call fails with CircularInclusion only on documents that have a cycle.
C10_StackScopedToOneCall ==
    /\ extra_config_stack = <<>>
    /\ (err = "CircularInclusion") => Cyclic(config.main_paths)

\* The canonical location of p is prefixed by the one of an excluded directory.
UnderExcluded(p) ==
    \E i \in 1..Len(config.fields.qmake_exclude_dirs) :
       StartsWith(location(p), location(config.fields.qmake_exclude_dirs[i]))

\* C11 as stated: the headers and the sources the scans of Qmake.generate return
\* hold no file whose canonical location is prefixed by the canonical location
\* of a directory of qmake_exclude_dirs.
C11_ExcludedFilesDropped ==
    \A p \in Range(scan.headers) \cup Range(scan.sources) : ~UnderExcluded(p)

\* The last removal or write of the run so far is the write of the file at l.
JustWrote(l) == oplog # <<>> /\ oplog[Len(oplog)] = <<"write", l>>

\* The text a path is to be emitted as, by its domain: relative to the
\* descriptor's directory (dir names it in the descriptor's language), through
\* the home directory variable, or as the absolute literal.
EmittedAs(p, dir, home) ==
    IF p.type = "Relative" THEN dir \o <<"rel:">> \o p.path
    ELSE IF p.type = "User" THEN home \o <<"rel:">> \o p.path
    ELSE location(p)

IsLibraryLine(line) == line # <<>> /\ Head(line) = "\t\t--library \""

\* The library lines of the primary descriptor just written name the
\* libraries of the configuration, each by its domain.
MakefilePathsByDomain ==
    JustWrote(args.makefile) =>
      \A line \in Range(fs[args.makefile].lines) :
         IsLibraryLine(line) =>
           \E lib \in Range(config.fields.lib_paths) :
              line = <<"\t\t--library \"">>
                     \o EmittedAs(lib, <<"$(MAKEFILE_DIR)", "/">>, <<"$(HOME)", "/">>)
                     \o <<"\" \\", "\n">>

ScanPaths ==
    Range(scan.other_files) \cup Range(scan.headers) \cup Range(scan.sources)
    \cup Range(scan.includepaths)

QmakeDirective(p) == <<"\t">> \o EmittedAs(p, <<>>, <<"$$HOME/">>) \o <<" \\", "\n">>

\* The project file just written lists the Relative paths of the scans, the
\* .pri file just written the User and the Absolute ones, each by its domain.
CompanionPathsByDomain ==
    /\ (args.qmake # <<>> /\ JustWrote(TheQmake.path)) =>
         \A p \in ScanPaths :
            p.type = "Relative" => QmakeDirective(p) \in Range(fs[TheQmake.path].lines)
    /\ (args.qmake # <<>> /\ JustWrote(TheQmake.prifile_path)) =>
         \A p \in ScanPaths :
            p.type # "Relative" => QmakeDirective(p) \in Range(fs[TheQmake.prifile_path].lines)

\* C12 as stated: every path a path-producing placeholder emits, in the primary
\* descriptor (libraries) and in the companion (other files, headers, sources,
\* include paths), is emitted by its domain: a Relative path relative to the
\* descriptor's directory, a User path through the home directory variable, an
\* Absolute path as its absolute literal.
C12_PathsEmittedByDomain == MakefilePathsByDomain /\ CompanionPathsByDomain

C14_CompanionSparesPrimary ==
    (pc = "done" /\ args.qmake # <<>>) =>
      /\ Cardinality({args.makefile, TheQmake.path, TheQmake.prifile_path,
                      TheQmake.script_path}) = 4
      /\ MakefileComplete(fs[args.makefile])
====
